---- MODULE Spec2Model ----
(***************************************************************************)
(* A model of the goflow runtime: the Redis state store (compare-and-set   *)
(* Update, atomic Incr), the rmq task-queue fabric with its push chain and *)
(* the Consume handler, the pause/resume handling of a request, and the    *)
(* worker registry heartbeat.                                              *)
(***************************************************************************)
EXTENDS Integers, Sequences, FiniteSets, Bags, TLC

(***************************************************************************)
(* Bounds of the model.                                                    *)
(***************************************************************************)
NProcs == 2            \* concurrent callers of the state store
MaxParents == 4        \* largest fan-in counter
MaxRetryQueues == 2    \* largest RetryQueueCount a runtime is configured with
MaxMsgs == 2           \* messages ever published to the queues
Concurrency == 2       \* FlowRuntime.Concurrency of the runtime
MaxNodes == 2          \* nodes of the flow of the paused request
MaxTasks == 3          \* tasks published for that request
MaxBeats == 3          \* registerDetails calls of one runtime
MaxHandles == 3        \* handles of one store
MaxValue == 2          \* largest value written to a key
MaxBody == 1           \* bytes of the body of a request
MaxWire == 2           \* tasks published and not consumed yet

Procs == 1..NProcs

(***************************************************************************)
(* Strings that are built by formatting are sequences of tokens, so that   *)
(* the key a store builds is computed the way fmt.Sprintf builds it.       *)
(***************************************************************************)
FlowF == <<"f">>
ReqR == <<"r">>
NodeStateKey == <<"node-state">>
CounterKey == <<"in-child-remaining">>
NodeStates == {"pending", "running"}

VARIABLES
    \* the FlowRuntime
    Flows,            \* registered flows: flow name -> definition handler
    workerMode,       \* FlowRuntime.workerMode
    RetryQueueCount,  \* FlowRuntime.RetryQueueCount
    taskQueues,       \* FlowRuntime.taskQueues: flow name -> primary queue
    pushQueue,        \* the push queue set on each queue (SetPushQueue)
    consumers,        \* consumers added to each queue
    rmqConnection,    \* FlowRuntime.rmqConnection: "nil" (the nil interface) or "open"
    stopping,         \* ExitWorkerMode is waiting for StopAllConsuming to finish
    observed,         \* whether the results of the calls are kept in ret
    ret,              \* the last call of the runtime's API that returned, and its result
    \* the rmq queues in redis
    msgs,             \* per message: payload, the list it is in, deliveries so far
    unacked,          \* the unacked lists: a bag of <<queue, payload>>
    published,        \* messages ever published
    acks,             \* Ack calls of Consume that acknowledged a delivery
    drops,            \* messages rejected at the end of the push chain
    last              \* what the last Consume call did

VARIABLES
    rds,          \* the Redis keyspace of the state store: full key -> value
    calls,        \* per caller: the Update call in progress
    parents,      \* per parent of the fan-in child: its Incr call
    fanIn,        \* the value the fan-in counter was initialised to (0: not yet)
    enq           \* number of times the fan-in child was enqueued

VARIABLES
    \* one request of a flow, its tasks and the consumers handling them
    phase,        \* the phase of the request in the state store
    nodeState,    \* the state of each node of the request in the state store
    tasks,        \* per task: request type, position in the queue and in its handler
    \* the worker registry and the heartbeat
    registry,     \* the registry keys in redis: key -> value and remaining TTL
    workerFlows,  \* worker.Flows
    started,      \* StartRuntime: "no", "yes" (scheduled) or "failed" (returned the error)
    sinceBeat,    \* seconds since the last registerDetails
    beats,        \* registerDetails calls so far
    lastBeat      \* the last registerDetails call: the worker mode it saw, its error

VARIABLES
    \* the store handles of the requests
    handles,      \* per handle: the store it is of, its namespace, the request it serves
    \* the requests submitted to the runtime
    wire,         \* the tasks published and not consumed yet, in order
    routed        \* what the consumer made of the last task it took

VARIABLES
    \* calls of the runtime that run at the same time
    registering,  \* per caller: its Register call, between its two loops or returned
    queueErr,     \* Redis does not answer: the calls to the queues return an error
    initializing  \* the initializeTaskQueues call in progress, with its loop position

VARIABLES
    \* the executors of the requests
    executors     \* per executor: its request, the handle of its store, its position

raceVars == <<registering, queueErr, initializing>>
execVars == <<executors>>
handleVars == <<handles>>
submitVars == <<wire, routed>>
pauseVars == <<phase, nodeState, tasks>>
regVars == <<registry, workerFlows, started, sinceBeat, beats, lastBeat>>
storeVars == <<rds, calls, parents, fanIn, enq>>
runtimeVars == <<Flows, workerMode, RetryQueueCount, taskQueues, pushQueue, consumers,
                 rmqConnection, stopping, observed, ret>>
queueVars == <<msgs, unacked, published, acks, drops, last>>
vars == <<storeVars, runtimeVars, queueVars, pauseVars, regVars, handleVars, submitVars, raceVars, execVars>>
outsideStore == <<runtimeVars, queueVars, pauseVars, regVars, handleVars, submitVars, raceVars, execVars>>
outsideRuntime == <<storeVars, pauseVars, regVars, handleVars, submitVars, raceVars, execVars>>

(***************************************************************************)
(* RedisStateStore                                                         *)
(***************************************************************************)
\* Configure: KeyPath = fmt.Sprintf("core.%s.%s", flowName, requestId)
Configure(flowName, requestId) == <<"core", ".">> \o flowName \o <<".">> \o requestId

\* key = this.KeyPath + "." + key
FullKey(keyPath, key) == keyPath \o <<".">> \o key

KeyPath == Configure(FlowF, ReqR)

Present(store, fk) == fk \in DOMAIN store

\* a redis SET: creates or overrides the key
Put(store, fk, v) == [x \in DOMAIN store \cup {fk} |-> IF x = fk THEN v ELSE store[x]]

\* Get: the value, or an error when the key is absent (redis.Nil)
Get(store, key) ==
    LET fk == FullKey(KeyPath, key)
    IN IF Present(store, fk) THEN [err |-> FALSE, value |-> store[fk]]
                             ELSE [err |-> TRUE, value |-> ""]

IdleCall == [pc |-> "idle", key |-> <<>>, old |-> "", new |-> "",
             dirty |-> FALSE, res |-> "", lost |-> FALSE]

\* what is left of a call once it has returned
Returned(c, res) == [IdleCall EXCEPT !.pc = "done", !.res = res, !.lost = c.lost]

InFlight(c) == c.pc \in {"called", "watched", "read"}

\* the call cs[q] has the arguments of the Update that caller p commits
Duplicate(cs, q, p) ==
    /\ calls[p].old # calls[p].new
    /\ cs[q].key = calls[p].key /\ cs[q].old = calls[p].old /\ cs[q].new = calls[p].new

\* A write to fk by caller p touches the key: every transaction that WATCHes
\* it is marked dirty. When the write is the commit of an Update, every
\* duplicate of it that is in progress has lost the race; any other write to
\* the key starts a new race for the calls that are not watching yet.
Touch(cs, p, fk, commit) ==
    [q \in Procs |->
        IF q = p \/ ~InFlight(cs[q]) \/ FullKey(KeyPath, cs[q].key) # fk THEN cs[q]
        ELSE [cs[q] EXCEPT
                !.dirty = @ \/ cs[q].pc \in {"watched", "read"},
                !.lost = IF commit /\ Duplicate(cs, q, p) THEN TRUE
                         ELSE IF cs[q].pc = "called" THEN FALSE
                         ELSE @]]

\* Set: client.Set(key, value, 0)
Set(p, key, value) ==
    /\ calls[p].pc \in {"idle", "done"}
    /\ rds' = Put(rds, FullKey(KeyPath, key), value)
    /\ calls' = Touch(calls, p, FullKey(KeyPath, key), FALSE)
    /\ UNCHANGED <<parents, fanIn, enq, outsideStore>>

\* Update is entered: nothing has been sent to redis yet
UpdateCall(p, key, old, new) ==
    /\ calls[p].pc \in {"idle", "done"}
    /\ calls' = [calls EXCEPT ![p] = [IdleCall EXCEPT !.pc = "called",
                                                      !.key = key, !.old = old, !.new = new]]
    /\ UNCHANGED <<rds, parents, fanIn, enq, outsideStore>>

\* client.Watch(..., key): the transaction starts watching the key
UpdateWatch(p) ==
    /\ calls[p].pc = "called"
    /\ calls' = [calls EXCEPT ![p].pc = "watched", ![p].dirty = FALSE]
    /\ UNCHANGED <<rds, parents, fanIn, enq, outsideStore>>

\* a mutant: the redis.Nil check is missing, an absent key reads as a value
\* that differs from oldValue
TxGetOutcomeNoNil(store, fk, old) ==
    IF Present(store, fk) /\ store[fk] = old THEN "CONTINUE" ELSE "MISMATCH"

\* the checks of the transaction body: redis.Nil, then value != oldValue
TxGetOutcome(store, fk, old) ==
    IF ~Present(store, fk) THEN "NOT_FOUND"
    ELSE IF store[fk] # old THEN "MISMATCH"
    ELSE "CONTINUE"

\* tx.Get and the comparison with oldValue
UpdateGet(p) ==
    LET c == calls[p]
        out == TxGetOutcome(rds, FullKey(KeyPath, c.key), c.old)
    IN /\ c.pc = "watched"
       /\ calls' = [calls EXCEPT ![p] =
                      IF out = "CONTINUE" THEN [c EXCEPT !.pc = "read"] ELSE Returned(c, out)]
       /\ UNCHANGED <<rds, parents, fanIn, enq, outsideStore>>

\* a mutant: the pipelined SET is executed whether or not the key was touched
TxCommitsUnwatched(dirty) == TRUE

\* EXEC of the watched transaction: it commits only if the key was not
\* touched since WATCH
TxCommits(dirty) == ~dirty

\* tx.Pipelined(SET key newValue): MULTI/EXEC
UpdateExec(p) ==
    LET c == calls[p]
        fk == FullKey(KeyPath, c.key)
    IN /\ c.pc = "read"
       /\ IF TxCommits(c.dirty)
          THEN /\ rds' = Put(rds, fk, c.new)
               /\ calls' = Touch([calls EXCEPT ![p] = Returned(c, "OK")], p, fk, TRUE)
          ELSE /\ rds' = rds
               /\ calls' = [calls EXCEPT ![p] = Returned(c, "TX_FAILED")]
       /\ UNCHANGED <<parents, fanIn, enq, outsideStore>>

(***************************************************************************)
(* Fan-in: the parents of a join decrement its counter with Incr.          *)
(***************************************************************************)
\* a mutant: the decrement is not applied (a lost update)
IncrByLost(cur, value) == cur

\* the value INCRBY stores and returns
IncrBy(cur, value) == cur + value

\* the fan-in counter of the child is created with the number of its parents
InitFanIn(k) ==
    /\ fanIn = 0
    /\ rds' = Put(rds, FullKey(KeyPath, CounterKey), k)
    /\ fanIn' = k
    /\ parents' = [i \in 1..k |-> [pc |-> "running", ret |-> 0]]
    /\ UNCHANGED <<calls, enq, outsideStore>>

\* Incr: client.IncrBy(key, value), one atomic redis command (an absent key counts as 0)
Incr(i, key, value) ==
    LET fk == FullKey(KeyPath, key)
        cur == IF Present(rds, fk) THEN rds[fk] ELSE 0
        new == IncrBy(cur, value)
    IN /\ i \in DOMAIN parents /\ parents[i].pc = "running"
       /\ rds' = Put(rds, fk, new)
       /\ parents' = [parents EXCEPT ![i] = [pc |-> "incremented", ret |-> new]]
       /\ UNCHANGED <<calls, fanIn, enq, outsideStore>>

\* the completing parent that observed 0 enqueues the child
FanInEnqueue(i) ==
    /\ i \in DOMAIN parents /\ parents[i].pc = "incremented"
    /\ enq' = IF parents[i].ret = 0 THEN enq + 1 ELSE enq
    /\ parents' = [parents EXCEPT ![i].pc = "done"]
    /\ UNCHANGED <<rds, calls, fanIn, outsideStore>>

(***************************************************************************)
(* FlowRuntime: flows, worker mode and the task queues                     *)
(***************************************************************************)
F1 == <<"f1">>
F2 == <<"f2">>

\* internalRequestQueueId: fmt.Sprintf("%s:%s", InternalRequestQueueInitial, flowName)
internalRequestQueueId(flowName) == <<"goflow-internal-request", ":">> \o flowName

\* pushQId := fmt.Sprintf("%s-push-%d", baseQId, idx)
PushQId(baseQId, idx) == baseQId \o <<"-push-", ToString(idx)>>

\* a mutant: prevQ is not advanced, every SetPushQueue is made on the task queue
PrevQStuck(prevQ, pushQ) == prevQ

\* prevQ = pushQueues[idx]
PrevQAfter(prevQ, pushQ) == pushQ

\* the loop that opens the push queues and links them with SetPushQueue
RECURSIVE SetPushQueues(_, _, _, _)
SetPushQueues(links, baseQId, prevQ, idx) ==
    IF idx >= RetryQueueCount THEN links
    ELSE SetPushQueues(Put(links, prevQ, PushQId(baseQId, idx)), baseQId,
                       PrevQAfter(prevQ, PushQId(baseQId, idx)), idx + 1)

\* StartConsuming(10, time.Second): the queue prefetches from its ready list
StartConsuming(cons, q) == IF q \in DOMAIN cons THEN cons ELSE Put(cons, q, 0)

\* a mutant: one consumer is added, whatever the number asked for
AddConsumersOnce(cons, q, k) == Put(cons, q, (IF q \in DOMAIN cons THEN cons[q] ELSE 0) + 1)

\* AddConsumer, k times
AddConsumers(cons, q, k) == Put(cons, q, (IF q \in DOMAIN cons THEN cons[q] ELSE 0) + k)

RECURSIVE ForPushQueues(_, _, _, _)
ForPushQueues(cons, baseQId, idx, k) ==
    IF idx >= RetryQueueCount THEN cons
    ELSE ForPushQueues(AddConsumers(StartConsuming(cons, PushQId(baseQId, idx)),
                                    PushQId(baseQId, idx), k),
                       baseQId, idx + 1, k)

\* the body of initializeTaskQueues for one flow
InitFlowQueues(st, flowName) ==
    LET baseQId == internalRequestQueueId(flowName)
    IN [taskQueues |-> Put(st.taskQueues, flowName, baseQId),
        pushQueue |-> SetPushQueues(st.pushQueue, baseQId, baseQId, 0),
        consumers |-> ForPushQueues(AddConsumers(StartConsuming(st.consumers, baseQId),
                                                 baseQId, Concurrency),
                                    baseQId, 0, 1)]

\* flows.ForEach of initializeTaskQueues
RECURSIVE ForEachFlow(_, _)
ForEachFlow(st, names) ==
    IF names = {} THEN st
    ELSE LET f == CHOOSE x \in names : TRUE
         IN ForEachFlow(InitFlowQueues(st, f), names \ {f})

\* what initializeTaskQueues returns: the error of the first OpenQueue if
\* Redis does not answer and there is a flow to open a queue for
initializeTaskQueuesErr == IF queueErr /\ DOMAIN Flows' # {} THEN "error" ELSE "nil"

initializeTaskQueues ==
    IF initializeTaskQueuesErr = "error"
    THEN UNCHANGED <<taskQueues, pushQueue, consumers>>
    ELSE LET st == ForEachFlow([taskQueues |-> taskQueues, pushQueue |-> pushQueue,
                                consumers |-> consumers], DOMAIN Flows')
         IN /\ taskQueues' = st.taskQueues
            /\ pushQueue' = st.pushQueue
            /\ consumers' = st.consumers

\* the return of a call: the function, the flow names it was given, the result
Ret(op, names, res) == [op |-> op, names |-> names, res |-> res]
NoRet == Ret("", {}, "")

\* the call returns: its result is kept if the calls are observed
Return(op, names, res) == ret' = IF observed THEN Ret(op, names, res) ELSE ret

\* reflect.ValueOf(fRuntime.rmqConnection).IsNil(): the field is an interface;
\* of a nil interface ValueOf gives the zero Value, on which IsNil panics
IsNil(connection) == IF connection = "nil" THEN "panic" ELSE "false"

\* a mutant: the call is rejected only if every name is already registered
AlreadyRegisteredAll(flows) == \A f \in DOMAIN flows : f \in DOMAIN Flows

\* the loop over the names of the map: a name that is registered ends the call
AlreadyRegistered(flows) == \E f \in DOMAIN flows : f \in DOMAIN Flows

\* the checks Register makes before it changes anything: how it ends there,
\* or "ok" if it goes on
RegisterCheck(flows) ==
    IF IsNil(rmqConnection) # "false" THEN IsNil(rmqConnection)
    ELSE IF DOMAIN flows = {} THEN "nil"
    ELSE IF AlreadyRegistered(flows) THEN "error"
    ELSE "ok"

\* Register: every name must be new; the flows are added and, in worker mode,
\* the task queues of all flows are initialised
Register(flows) ==
    /\ ~stopping
    /\ IF RegisterCheck(flows) # "ok"
       THEN /\ Return("Register", DOMAIN flows, RegisterCheck(flows))
            /\ UNCHANGED <<Flows, taskQueues, pushQueue, consumers>>
       ELSE /\ Flows' = [f \in DOMAIN Flows \cup DOMAIN flows |->
                            IF f \in DOMAIN flows THEN flows[f] ELSE Flows[f]]
            /\ IF workerMode THEN initializeTaskQueues
                             ELSE UNCHANGED <<taskQueues, pushQueue, consumers>>
            /\ Return("Register", DOMAIN flows,
                      IF workerMode THEN initializeTaskQueuesErr ELSE "nil")
    /\ UNCHANGED <<workerMode, RetryQueueCount, rmqConnection, stopping, observed, queueVars, outsideRuntime>>

\* EnterWorkerMode: a no-op in worker mode; otherwise the flag is set and the
\* task queues of all flows are initialised
EnterWorkerMode ==
    /\ ~stopping
    /\ IF IsNil(rmqConnection) # "false"
       THEN /\ Return("EnterWorkerMode", {}, IsNil(rmqConnection))
            /\ UNCHANGED <<Flows, workerMode, taskQueues, pushQueue, consumers>>
       ELSE IF workerMode
       THEN /\ Return("EnterWorkerMode", {}, "nil")
            /\ UNCHANGED <<Flows, workerMode, taskQueues, pushQueue, consumers>>
       ELSE /\ workerMode' = TRUE
            /\ Flows' = Flows
            /\ initializeTaskQueues
            /\ Return("EnterWorkerMode", {}, initializeTaskQueuesErr)
    /\ UNCHANGED <<RetryQueueCount, rmqConnection, stopping, observed, queueVars, outsideRuntime>>

\* ExitWorkerMode up to the wait in cleanTaskQueues: a no-op outside worker
\* mode; otherwise the flag is cleared and StopAllConsuming is called
ExitWorkerMode ==
    /\ ~stopping
    /\ IF IsNil(rmqConnection) # "false"
       THEN /\ Return("ExitWorkerMode", {}, IsNil(rmqConnection))
            /\ UNCHANGED <<workerMode, stopping>>
       ELSE IF ~workerMode
       THEN /\ Return("ExitWorkerMode", {}, "nil")
            /\ UNCHANGED <<workerMode, stopping>>
       ELSE /\ workerMode' = FALSE
            /\ stopping' = TRUE
            /\ ret' = ret
    /\ UNCHANGED <<Flows, RetryQueueCount, taskQueues, pushQueue, consumers, rmqConnection,
                   observed, queueVars, outsideRuntime>>

\* a mutant: cleanTaskQueues does not wait for the channel
StopAllConsumingNoWait(ms) == TRUE

\* <-endChan: the channel of StopAllConsuming is closed when no consumer of a
\* queue of the connection is in a Consume call any more
StopAllConsumingDone(ms) == \A m \in DOMAIN ms : ms[m].st # "consuming"

\* the rest of ExitWorkerMode: the consumers have stopped, the task queue map
\* is replaced by an empty one and nil is returned
ExitWorkerModeReturn ==
    /\ stopping
    /\ StopAllConsumingDone(msgs)
    /\ stopping' = FALSE
    /\ consumers' = <<>>
    /\ taskQueues' = <<>>
    /\ Return("ExitWorkerMode", {}, "nil")
    /\ UNCHANGED <<Flows, workerMode, RetryQueueCount, pushQueue, rmqConnection,
                   observed, queueVars, outsideRuntime>>

\* FlowRuntime.Init: the connection to the queues is opened
FlowRuntimeInit ==
    /\ rmqConnection' = "open"
    /\ Return("Init", {}, "nil")
    /\ UNCHANGED <<Flows, workerMode, RetryQueueCount, taskQueues, pushQueue, consumers,
                   stopping, observed, queueVars, outsideRuntime>>

(***************************************************************************)
(* Register, called from several goroutines: its two loops are steps of    *)
(* their own, since no lock spans them                                     *)
(***************************************************************************)
outsideRace == <<storeVars, pauseVars, regVars, handleVars, submitVars, execVars>>

\* no initializeTaskQueues call is in progress
NoInit == [pc |-> "idle", op |-> "", names |-> {}, todo |-> {}, flow |-> <<>>, raced |-> {}]

\* a caller that has not called Register yet
NoCall == [pc |-> "idle", flows |-> <<>>, res |-> ""]

\* Register up to the end of its first loop: the call returns there, or goes
\* on to its second loop
RegisterCheckLoop(p, flows) ==
    /\ ~stopping
    /\ registering[p].pc = "idle"
    /\ registering' = [registering EXCEPT ![p] =
           IF RegisterCheck(flows) = "ok"
           THEN [pc |-> "checked", flows |-> flows, res |-> ""]
           ELSE [pc |-> "done", flows |-> flows, res |-> RegisterCheck(flows)]]
    /\ UNCHANGED <<queueErr, initializing, runtimeVars, queueVars, outsideRace>>

\* the rest of Register: the flows are set, in worker mode the task queues
\* of all flows are initialised, and nil is returned
RegisterSetLoop(p) ==
    /\ ~stopping
    /\ registering[p].pc = "checked"
    /\ LET flows == registering[p].flows
       IN  Flows' = [f \in DOMAIN Flows \cup DOMAIN flows |->
                        IF f \in DOMAIN flows THEN flows[f] ELSE Flows[f]]
    /\ IF workerMode THEN initializeTaskQueues
                     ELSE UNCHANGED <<taskQueues, pushQueue, consumers>>
    /\ registering' = [registering EXCEPT
           ![p].pc = "done",
           ![p].res = IF workerMode THEN initializeTaskQueuesErr ELSE "nil"]
    /\ UNCHANGED <<queueErr, initializing, workerMode, RetryQueueCount, rmqConnection, stopping, observed, ret,
                   queueVars, outsideRace>>

\* Redis stops answering, or answers again
RedisOutage ==
    /\ queueErr' = ~queueErr
    /\ UNCHANGED <<registering, initializing, runtimeVars, queueVars, outsideRace>>

(***************************************************************************)
(* The queues: publishing, prefetching and Consume                         *)
(***************************************************************************)
Payloads == {"GARBAGE", "BOGUS", "NEW", "PARTIAL", "PAUSE", "RESUME", "STOP"}
Msgs == 1..MaxMsgs
NoMsg == [flow |-> <<>>, payload |-> "", st |-> "none", q |-> <<>>, hop |-> 0, deliv |-> 0]
NoConsume == [payload |-> "", handler |-> "none", created |-> FALSE, outcome |-> "",
              push |-> FALSE, ack |-> FALSE]

\* PublishBytes on the primary queue of the flow: Execute, Pause, Resume, Stop
\* and EnqueuePartialRequest marshal a Task; anything else pushed on the list
\* is a payload that does not parse or a task with an unknown request_type
PublishBytes(ms, flowName, payload) ==
    LET m == CHOOSE x \in Msgs : ms[x].st = "none" /\ \A y \in Msgs : ms[y].st = "none" => x <= y
    IN [ms EXCEPT ![m] = [NoMsg EXCEPT !.flow = flowName, !.payload = payload, !.st = "ready",
                                       !.q = internalRequestQueueId(flowName)]]

CanPublish(ms) == \E x \in Msgs : ms[x].st = "none"

Publish(flowName, payload) ==
    /\ CanPublish(msgs)
    /\ msgs' = PublishBytes(msgs, flowName, payload)
    /\ published' = published + 1
    /\ UNCHANGED <<unacked, acks, drops, last, runtimeVars, outsideRuntime>>

\* the prefetcher of a consuming queue moves a message from ready to unacked
Fetch(m) ==
    /\ msgs[m].st = "ready"
    /\ msgs[m].q \in DOMAIN consumers
    /\ msgs' = [msgs EXCEPT ![m].st = "fetched"]
    /\ unacked' = unacked (+) SetToBag({<<msgs[m].q, msgs[m].payload>>})
    /\ UNCHANGED <<published, acks, drops, last, runtimeVars, outsideRuntime>>

\* json.Unmarshal([]byte(message.Payload()), &task)
Unmarshal(payload) == payload # "GARBAGE"

\* what a handler can come to: CreateExecutor fails, the controller handler
\* returns an error, or it returns nil; a PARTIAL whose node function fails
\* marks the request failed and returns nil
Outcomes(handler) ==
    IF handler = "invalid" THEN {"invalid"}
    ELSE {"createFailed", "handlerErr", "ok"}
         \cup (IF handler = "handlePartialRequest" THEN {"nodeFailed"} ELSE {})
         \cup (IF handler \in {"handlePartialRequest", "handleNewRequest"}
               THEN {"enqueued"} ELSE {})

\* CreateExecutor returned an executor (the flow has a handler and ex.Init succeeded)
Created(outcome) == outcome \in {"handlerErr", "ok", "nodeFailed", "enqueued"}

\* the error of the controller's handler: a failure of the stores or of the
\* queue is returned; a node function that fails marks the node and the
\* request failed and nil is returned
ControllerErr(outcome) == outcome = "handlerErr"

\* a mutant: an unknown request type is handled as a new request
handleRequestNoDefault(requestType) ==
    CASE requestType = "PARTIAL" -> "handlePartialRequest"
      [] requestType = "PAUSE" -> "handlePauseRequest"
      [] requestType = "RESUME" -> "handleResumeRequest"
      [] requestType = "STOP" -> "handleStopRequest"
      [] OTHER -> "handleNewRequest"

\* handleRequest: the handler the request type is routed to
handleRequest(requestType) ==
    CASE requestType = "PARTIAL" -> "handlePartialRequest"
      [] requestType = "NEW" -> "handleNewRequest"
      [] requestType = "PAUSE" -> "handlePauseRequest"
      [] requestType = "RESUME" -> "handleResumeRequest"
      [] requestType = "STOP" -> "handleStopRequest"
      [] OTHER -> "invalid"

\* the error handleRequest returns: the request type is invalid, or the
\* handler failed to create the executor or got an error from the controller
HandlerErr(outcome) == outcome = "invalid" \/ outcome = "createFailed" \/ ControllerErr(outcome)

\* a mutant: the test of the handler's error is inverted
ConsumeCallsInverted(parsed, err, pushErr) ==
    IF ~parsed THEN [push |-> TRUE, ack |-> FALSE]
    ELSE IF ~err THEN [push |-> TRUE, ack |-> ~pushErr]
    ELSE [push |-> FALSE, ack |-> TRUE]

\* the queue operations Consume calls: the parse failure returns after Push;
\* the handler failure returns after Push only if Push failed, otherwise it
\* goes on to Ack
ConsumeCalls(parsed, err, pushErr) ==
    IF ~parsed THEN [push |-> TRUE, ack |-> FALSE]
    ELSE IF err THEN [push |-> TRUE, ack |-> ~pushErr]
    ELSE [push |-> FALSE, ack |-> TRUE]

\* LREM unacked 1 payload: one copy of the payload leaves the unacked list
LRem(bag, e) == bag (-) SetToBag({e})

\* the body of Consume(message), with the handler's outcome as input
ConsumeBody(m, outcome) ==
    LET d == msgs[m]
        e == <<d.q, d.payload>>
        parsed == Unmarshal(d.payload)
        handler == IF parsed THEN handleRequest(d.payload) ELSE "none"
        err == HandlerErr(outcome)
        \* delivery.Push: LPUSH on the push queue (or, without one, on the
        \* rejected list), then LREM on unacked; ErrorNotFound if nothing was removed
        pushErr == ~BagIn(e, unacked)
        do == ConsumeCalls(parsed, err, pushErr)
        chainEnd == d.q \notin DOMAIN pushQueue
        afterPush == IF do.push THEN LRem(unacked, e) ELSE unacked
        \* delivery.Ack: LREM on unacked
        ackOk == do.ack /\ BagIn(e, afterPush)
        moved == [d EXCEPT !.deliv = @ + 1,
                           !.hop = IF do.push THEN @ + 1 ELSE @,
                           !.st = IF ~do.push THEN "done"
                                  ELSE IF chainEnd THEN "rejected" ELSE "ready",
                           !.q = IF do.push /\ ~chainEnd THEN pushQueue[d.q] ELSE @]
        ms == [msgs EXCEPT ![m] = moved]
        enqueue == outcome = "enqueued" /\ CanPublish(ms) /\ d.flow \in DOMAIN taskQueues
    IN /\ outcome \in (IF parsed THEN Outcomes(handler) ELSE {"unparsed"})
       /\ msgs' = IF enqueue THEN PublishBytes(ms, d.flow, "PARTIAL") ELSE ms
       /\ published' = IF enqueue THEN published + 1 ELSE published
       /\ unacked' = IF ackOk THEN LRem(afterPush, e) ELSE afterPush
       /\ acks' = IF ackOk THEN acks + 1 ELSE acks
       /\ drops' = IF do.push /\ chainEnd THEN drops + 1 ELSE drops
       /\ last' = [payload |-> d.payload, handler |-> handler, created |-> Created(outcome),
                   outcome |-> outcome, push |-> do.push, ack |-> do.ack]
       /\ UNCHANGED <<runtimeVars, outsideRuntime>>

\* a consumer of the queue takes the delivery and runs Consume to its end
Consume(m, outcome) ==
    /\ msgs[m].st = "fetched"
    /\ msgs[m].q \in DOMAIN consumers /\ consumers[msgs[m].q] > 0
    /\ ConsumeBody(m, outcome)

\* the deliveries of the queue that are in a Consume call
Consuming(q) == {m \in Msgs : msgs[m].st = "consuming" /\ msgs[m].q = q}

\* a free consumer of the queue takes the delivery: Consume is called
ConsumeCall(m) ==
    /\ msgs[m].st = "fetched"
    /\ msgs[m].q \in DOMAIN consumers
    /\ Cardinality(Consuming(msgs[m].q)) < consumers[msgs[m].q]
    /\ msgs' = [msgs EXCEPT ![m].st = "consuming"]
    /\ UNCHANGED <<unacked, published, acks, drops, last, runtimeVars, outsideRuntime>>

\* the Consume call returns
ConsumeReturn(m, outcome) ==
    /\ msgs[m].st = "consuming"
    /\ ConsumeBody(m, outcome)

(***************************************************************************)
(* initializeTaskQueues step by step, beside the consumers it has started  *)
(***************************************************************************)
\* the Consume call of the delivery is in progress and its handler is one
\* whose executor calls EnqueuePartialRequest, which reads the task-queue map
ReadsTaskQueues(m) ==
    /\ msgs[m].st = "consuming"
    /\ Unmarshal(msgs[m].payload)
    /\ "enqueued" \in Outcomes(handleRequest(msgs[m].payload))

\* the call enters initializeTaskQueues with the flows to go through, or
\* returns at once if there is none
BeginInit(op, names, flows) ==
    /\ initializing' = IF flows = {} THEN initializing
                       ELSE [initializing EXCEPT !.pc = "open", !.op = op, !.names = names,
                                                 !.todo = flows]
    /\ IF flows = {} THEN Return(op, names, "nil") ELSE ret' = ret

\* EnterWorkerMode up to the ForEach of initializeTaskQueues
EnterWorkerModeBegin ==
    /\ ~stopping
    /\ initializing.pc = "idle"
    /\ IsNil(rmqConnection) = "false"
    /\ ~workerMode
    /\ workerMode' = TRUE
    /\ BeginInit("EnterWorkerMode", {}, DOMAIN Flows)
    /\ UNCHANGED <<Flows, RetryQueueCount, taskQueues, pushQueue, consumers, rmqConnection,
                   stopping, observed, registering, queueErr, queueVars, outsideRace>>

\* Register in worker mode up to the ForEach of initializeTaskQueues
RegisterBegin(flows) ==
    /\ ~stopping
    /\ initializing.pc = "idle"
    /\ workerMode
    /\ RegisterCheck(flows) = "ok"
    /\ Flows' = [f \in DOMAIN Flows \cup DOMAIN flows |->
                    IF f \in DOMAIN flows THEN flows[f] ELSE Flows[f]]
    /\ BeginInit("Register", DOMAIN flows, DOMAIN Flows \cup DOMAIN flows)
    /\ UNCHANGED <<workerMode, RetryQueueCount, taskQueues, pushQueue, consumers,
                   rmqConnection, stopping, observed, registering, queueErr, queueVars,
                   outsideRace>>

\* one iteration of the ForEach up to the write of the map: the queues of the
\* flow are opened and linked, the task queue starts consuming and is stored
\* in the map, while the consumers of the flows before it are running; the
\* first OpenQueue that fails ends the call
OpenFlowQueues(f) ==
    /\ initializing.pc = "open"
    /\ f \in initializing.todo
    /\ IF queueErr
       THEN /\ initializing' = [NoInit EXCEPT !.raced = initializing.raced]
            /\ Return(initializing.op, initializing.names, "error")
            /\ UNCHANGED <<taskQueues, pushQueue, consumers>>
       ELSE /\ pushQueue' = SetPushQueues(pushQueue, internalRequestQueueId(f),
                                          internalRequestQueueId(f), 0)
            /\ consumers' = StartConsuming(consumers, internalRequestQueueId(f))
            /\ taskQueues' = Put(taskQueues, f, internalRequestQueueId(f))
            /\ initializing' = [initializing EXCEPT
                   !.pc = "consumers", !.flow = f,
                   !.raced = @ \cup {m \in Msgs : ReadsTaskQueues(m)}]
            /\ ret' = ret
    /\ UNCHANGED <<Flows, workerMode, RetryQueueCount, rmqConnection, stopping, observed,
                   registering, queueErr, queueVars, outsideRace>>

\* the rest of the iteration: the push queues start consuming and the
\* consumers are added; after the last flow the call returns nil
AddFlowConsumers ==
    /\ initializing.pc = "consumers"
    /\ consumers' = ForPushQueues(AddConsumers(consumers,
                                               internalRequestQueueId(initializing.flow),
                                               Concurrency),
                                  internalRequestQueueId(initializing.flow), 0, 1)
    /\ IF initializing.todo = {initializing.flow}
       THEN /\ initializing' = [NoInit EXCEPT !.raced = initializing.raced]
            /\ Return(initializing.op, initializing.names, "nil")
       ELSE /\ initializing' = [initializing EXCEPT !.pc = "open",
                                                    !.todo = @ \ {initializing.flow}]
            /\ ret' = ret
    /\ UNCHANGED <<Flows, workerMode, RetryQueueCount, taskQueues, pushQueue, rmqConnection,
                   stopping, observed, registering, queueErr, queueVars, outsideRace>>

\* Register outside worker mode, where it opens no queue
RegisterOutside(flows) == ~workerMode /\ initializing.pc = "idle" /\ Register(flows)

\* ExitWorkerMode, called when no initializeTaskQueues is in progress
ExitWorkerModeCall == initializing.pc = "idle" /\ ExitWorkerMode

\* a Consume call whose read of the map ran beside a write of it: Go does not
\* define the result; the read may go well (ConsumeReturn), or the runtime
\* stops the process with "concurrent map read and map write": the consumers
\* and the memory of the process are gone, the deliveries stay unacked
ConsumeFatal(m) ==
    /\ m \in initializing.raced
    /\ ReadsTaskQueues(m)
    /\ initializing' = [NoInit EXCEPT !.pc = "crashed"]
    /\ msgs' = [x \in Msgs |-> IF msgs[x].st = "consuming"
                               THEN [msgs[x] EXCEPT !.st = "fetched"] ELSE msgs[x]]
    /\ Flows' = <<>>
    /\ workerMode' = FALSE
    /\ stopping' = FALSE
    /\ taskQueues' = <<>>
    /\ consumers' = <<>>
    /\ Return("Consume", {msgs[m].flow}, "fatal")
    /\ UNCHANGED <<RetryQueueCount, pushQueue, rmqConnection, observed, unacked, published,
                   acks, drops, last, registering, queueErr, outsideRace>>

(***************************************************************************)
(* Pause and resume of a request: the tasks of one request handled by      *)
(* Concurrency consumers                                                   *)
(***************************************************************************)
Nodes == 1..MaxNodes
Tasks == 1..MaxTasks
NoTask == [type |-> "", st |-> "none", hop |-> 0, node |-> 0]

\* Pause, Resume, EnqueuePartialRequest: a task of the request type is
\* marshalled and published to the task queue of the flow
PublishTask(type) ==
    /\ \E t \in Tasks : tasks[t].st = "none"
    /\ LET t == CHOOSE x \in Tasks : tasks[x].st = "none" /\ \A y \in Tasks : tasks[y].st = "none" => x <= y
       IN tasks' = [tasks EXCEPT ![t] = [NoTask EXCEPT !.type = type, !.st = "ready"]]
    /\ UNCHANGED <<phase, nodeState, regVars, storeVars, runtimeVars, queueVars,
                   handleVars, submitVars, raceVars, execVars>>

\* the consumers of a queue handle at most one delivery each at a time
Busy == {t \in Tasks : tasks[t].st \in {"fetched", "checked", "claimed"}}

\* a consumer gets the task
FetchTask(t) ==
    /\ tasks[t].st = "ready"
    /\ Cardinality(Busy) < Concurrency
    /\ tasks' = [tasks EXCEPT ![t].st = "fetched"]
    /\ UNCHANGED <<phase, nodeState, regVars, storeVars, runtimeVars, queueVars,
                   handleVars, submitVars, raceVars, execVars>>

\* the end of Consume: a handler error pushes the task one step along the
\* chain (it is dropped at the end), no error acknowledges it
Settle(task, err) ==
    IF ~err THEN [task EXCEPT !.st = "done"]
    ELSE IF task.hop < RetryQueueCount THEN [task EXCEPT !.st = "ready", !.hop = @ + 1]
    ELSE [task EXCEPT !.st = "rejected", !.hop = @ + 1]

\* flowExecutor.Pause: fails unless the request is running
ExecutorPause(ph) ==
    IF ph = "running" THEN [phase |-> "paused", err |-> FALSE] ELSE [phase |-> ph, err |-> TRUE]

\* flowExecutor.Resume: fails unless the request is paused
ExecutorResume(ph) ==
    IF ph = "paused" THEN [phase |-> "running", err |-> FALSE] ELSE [phase |-> ph, err |-> TRUE]

\* handlePauseRequest -> PauseFlowHandler
HandlePause(t) ==
    /\ tasks[t].st = "fetched" /\ tasks[t].type = "PAUSE"
    /\ LET r == ExecutorPause(phase)
       IN /\ phase' = r.phase
          /\ tasks' = [tasks EXCEPT ![t] = Settle(@, r.err)]
    /\ UNCHANGED <<nodeState, regVars, storeVars, runtimeVars, queueVars,
                   handleVars, submitVars, raceVars, execVars>>

\* handleResumeRequest -> ResumeFlowHandler
HandleResume(t) ==
    /\ tasks[t].st = "fetched" /\ tasks[t].type = "RESUME"
    /\ LET r == ExecutorResume(phase)
       IN /\ phase' = r.phase
          /\ tasks' = [tasks EXCEPT ![t] = Settle(@, r.err)]
    /\ UNCHANGED <<nodeState, regVars, storeVars, runtimeVars, queueVars,
                   handleVars, submitVars, raceVars, execVars>>

\* the frontier of a serial flow: the pending nodes whose parents completed
Frontier == {n \in Nodes : nodeState[n] = "pending" /\ \A k \in 1..(n - 1) : nodeState[k] = "completed"}

\* the ready node of lowest id
ChooseReady == CHOOSE n \in Frontier : \A k \in Frontier : n <= k

\* PARTIAL, steps 1 to 4: the frontier and the phase are read; an empty
\* frontier, or a phase other than running, ends the handler without error
PartialCheck(t) ==
    /\ tasks[t].st = "fetched" /\ tasks[t].type = "PARTIAL"
    /\ IF Frontier = {} \/ phase # "running"
       THEN tasks' = [tasks EXCEPT ![t] = Settle(@, FALSE)]
       ELSE tasks' = [tasks EXCEPT ![t].st = "checked", ![t].node = ChooseReady]
    /\ UNCHANGED <<phase, nodeState, regVars, storeVars, runtimeVars, queueVars,
                   handleVars, submitVars, raceVars, execVars>>

\* PARTIAL, step 5: Update(state(n), pending, running); on a mismatch
\* another delivery has claimed the node and the handler ends without error
PartialClaim(t) ==
    /\ tasks[t].st = "checked"
    /\ LET n == tasks[t].node
       IN IF TxGetOutcome(nodeState, n, "pending") = "CONTINUE"
          THEN /\ nodeState' = [nodeState EXCEPT ![n] = "running"]
               /\ tasks' = [tasks EXCEPT ![t].st = "claimed"]
          ELSE /\ nodeState' = nodeState
               /\ tasks' = [tasks EXCEPT ![t] = Settle(@, FALSE)]
    /\ UNCHANGED <<phase, regVars, storeVars, runtimeVars, queueVars,
                   handleVars, submitVars, raceVars, execVars>>

\* PARTIAL, steps 6 to 10: the node runs and is completed
PartialComplete(t) ==
    /\ tasks[t].st = "claimed"
    /\ nodeState' = [nodeState EXCEPT ![tasks[t].node] = "completed"]
    /\ tasks' = [tasks EXCEPT ![t] = Settle(@, FALSE)]
    /\ UNCHANGED <<phase, regVars, storeVars, runtimeVars, queueVars,
                   handleVars, submitVars, raceVars, execVars>>

(***************************************************************************)
(* The worker registry: StartRuntime and registerDetails                   *)
(***************************************************************************)
GoFlowRegisterInterval == 4
RDBKeyTimeOut == 10

\* key := fmt.Sprintf("%s:%s", WorkerKeyInitial, worker.ID)
WorkerKey == <<"goflow-worker", ":", "w1">>

\* key := fmt.Sprintf("%s:%s", FlowKeyInitial, flowId)
FlowKey(flowId) == <<"goflow-flow", ":">> \o flowId

\* getFlowDefinition: the export of the definition, or its error
getFlowDefinition(handler) ==
    IF handler = "exportable" THEN [dag |-> <<"dag">>, err |-> FALSE]
    ELSE [dag |-> <<>>, err |-> TRUE]

\* Flows.ForEach of registerDetails over the flows in the given order: the
\* flow is appended to worker.Flows, then exported; the first error stops it
RECURSIVE ExportFlows(_, _)
ExportFlows(acc, order) ==
    IF order = <<>> THEN acc
    ELSE LET f == Head(order)
             d == getFlowDefinition(Flows[f])
             app == [acc EXCEPT !.workerFlows = Append(@, f)]
         IN IF d.err THEN [app EXCEPT !.err = TRUE]
            ELSE ExportFlows([app EXCEPT !.flowDetails = Put(@, f, d.dag)], Tail(order))

\* the orders in which ForEach can visit the registered flows
Orders == {o \in UNION {[1..n -> DOMAIN Flows] : n \in {Cardinality(DOMAIN Flows)}} :
              \A i, j \in DOMAIN o : i # j => o[i] # o[j]}

\* a mutant: the keys are set with a TTL shorter than the register interval
RdbSetShort(reg, key, value) == Put(reg, key, [value |-> value, ttl |-> GoFlowRegisterInterval - 1])

\* rdb.Set(key, value, time.Second*RDBKeyTimeOut)
RdbSet(reg, key, value) == Put(reg, key, [value |-> value, ttl |-> RDBKeyTimeOut])

\* rdb.Del(key)
RdbDel(reg, key) == [k \in DOMAIN reg \ {key} |-> reg[k]]

saveWorkerDetails(reg, flows) == RdbSet(reg, WorkerKey, flows)

\* a mutant: the worker key is left in place outside worker mode
deleteWorkerDetailsSkipped(reg) == reg

deleteWorkerDetails(reg) == RdbDel(reg, WorkerKey)

RECURSIVE saveFlowDetails(_, _)
saveFlowDetails(reg, flowDetails) ==
    IF DOMAIN flowDetails = {} THEN reg
    ELSE LET f == CHOOSE x \in DOMAIN flowDetails : TRUE
         IN saveFlowDetails(RdbSet(reg, FlowKey(f), flowDetails[f]),
                            [x \in DOMAIN flowDetails \ {f} |-> flowDetails[x]])

\* registerDetails: the registry and worker.Flows after the call, and its error
registerDetails(order) ==
    LET ex == ExportFlows([workerFlows |-> workerFlows, flowDetails |-> <<>>, err |-> FALSE], order)
        worker == IF workerMode THEN saveWorkerDetails(registry, ex.workerFlows)
                  ELSE deleteWorkerDetails(registry)
    IN [workerFlows |-> ex.workerFlows,
        err |-> ex.err,
        registry |-> IF ex.err THEN registry ELSE saveFlowDetails(worker, ex.flowDetails)]

\* StartRuntime: the first registerDetails; its error is returned, otherwise
\* the call is scheduled every GoFlowRegisterInterval seconds
StartRuntime ==
    /\ started = "no"
    /\ \E order \in Orders :
        LET r == registerDetails(order)
        IN /\ registry' = r.registry
           /\ workerFlows' = r.workerFlows
           /\ started' = IF r.err THEN "failed" ELSE "yes"
           /\ lastBeat' = [mode |-> workerMode, err |-> r.err]
    /\ beats' = beats + 1
    /\ sinceBeat' = 0
    /\ UNCHANGED <<pauseVars, storeVars, runtimeVars, queueVars,
                   handleVars, submitVars, raceVars, execVars>>

\* the scheduled registerDetails: its error is logged
Heartbeat ==
    /\ started = "yes"
    /\ sinceBeat = GoFlowRegisterInterval
    /\ beats < MaxBeats
    /\ \E order \in Orders :
        LET r == registerDetails(order)
        IN /\ registry' = r.registry
           /\ workerFlows' = r.workerFlows
           /\ lastBeat' = [mode |-> workerMode, err |-> r.err]
    /\ beats' = beats + 1
    /\ sinceBeat' = 0
    /\ UNCHANGED <<started, pauseVars, storeVars, runtimeVars, queueVars,
                   handleVars, submitVars, raceVars, execVars>>

\* the process of the runtime ends: registerDetails is not called any more
Halt ==
    /\ started = "yes"
    /\ started' = "halted"
    /\ UNCHANGED <<registry, workerFlows, sinceBeat, beats, lastBeat,
                   pauseVars, storeVars, runtimeVars, queueVars,
                   handleVars, submitVars, raceVars, execVars>>

\* a second passes: the keys get one second older and the expired ones go;
\* the scheduled call is not late, a halted runtime is followed for
\* RDBKeyTimeOut seconds
Tick ==
    /\ \/ started = "yes" /\ sinceBeat < GoFlowRegisterInterval
       \/ started = "halted" /\ sinceBeat < RDBKeyTimeOut
    /\ sinceBeat' = sinceBeat + 1
    /\ registry' = [k \in {x \in DOMAIN registry : registry[x].ttl > 1} |->
                        [registry[k] EXCEPT !.ttl = @ - 1]]
    /\ UNCHANGED <<workerFlows, started, beats, lastBeat, pauseVars, storeVars, runtimeVars, queueVars,
                   handleVars, submitVars, raceVars, execVars>>

(***************************************************************************)
(* Store handles: the namespaces of the requests in the two stores         *)
(***************************************************************************)
\* flow names, request ids and keys, some with the separators of the key paths
Names == {<<"a">>, <<"a", ".", "a">>, <<"a", "-", "a">>}
StoreKeys == {<<"k">>, <<"a", ".", "k">>}
Values == 1..MaxValue

\* RedisDataStore.Configure: bucketName = fmt.Sprintf("core-%s-%s", flowName, requestId)
DataConfigure(flowName, requestId) == <<"core", "-">> \o flowName \o <<"-">> \o requestId

\* getPath: fmt.Sprintf("%s.%s", bucket, fmt.Sprintf("%s.value", key))
getPath(bucket, key) == bucket \o <<".">> \o key \o <<".", "value">>

\* the store object GetRedisStateStore or GetRedisDataStore returns
NewStore(kind) == [kind |-> kind, path |-> <<>>, flowName |-> <<>>, requestId |-> <<>>]

\* the object after Configure(flowName, requestId)
Configured(kind, flowName, requestId) ==
    [kind |-> kind,
     path |-> IF kind = "state" THEN Configure(flowName, requestId)
                                ELSE DataConfigure(flowName, requestId),
     flowName |-> flowName, requestId |-> requestId]

\* the object a handle points to
StoreOf(hs, h) == hs.obj[hs.ref[h]]

\* the full key of a key of the handle
PathOf(hs, h, key) ==
    IF StoreOf(hs, h).kind = "state" THEN FullKey(StoreOf(hs, h).path, key)
                                     ELSE getPath(StoreOf(hs, h).path, key)

\* Get through a handle
HandleGet(store, hs, h, key) ==
    IF Present(store, PathOf(hs, h, key))
    THEN [err |-> FALSE, value |-> store[PathOf(hs, h, key)]]
    ELSE [err |-> TRUE, value |-> 0]

outsideHandles == <<calls, parents, fanIn, enq, runtimeVars, queueVars, pauseVars, regVars,
                    submitVars, raceVars, execVars>>

\* Configure on the object of the handle
HandleConfigure(h, flowName, requestId) ==
    /\ h \in DOMAIN handles.ref
    /\ handles' = [handles EXCEPT !.obj[handles.ref[h]] =
                       Configured(StoreOf(handles, h).kind, flowName, requestId)]
    /\ UNCHANGED <<rds, outsideHandles>>

\* a mutant: CopyStore returns the store it was called on
CopyStoreSame(hs, h) == [hs EXCEPT !.ref = Append(@, hs.ref[h])]

\* CopyStore: a new object with the KeyPath (bucketName) and the client of this one
CopyStore(hs, h) ==
    [ref |-> Append(hs.ref, Len(hs.obj) + 1),
     obj |-> Append(hs.obj, StoreOf(hs, h))]

HandleCopyStore(h) ==
    /\ h \in DOMAIN handles.ref
    /\ Len(handles.ref) < MaxHandles
    /\ handles' = CopyStore(handles, h)
    /\ UNCHANGED <<rds, outsideHandles>>

\* Set through a handle
HandleSet(h, key, value) ==
    /\ h \in DOMAIN handles.ref
    /\ rds' = Put(rds, PathOf(handles, h, key), value)
    /\ UNCHANGED <<handles, outsideHandles>>

\* Update through a handle of the state store, with no other call in between
HandleUpdate(h, key, old, new) ==
    /\ h \in DOMAIN handles.ref
    /\ StoreOf(handles, h).kind = "state"
    /\ rds' = IF TxGetOutcome(rds, PathOf(handles, h, key), old) = "CONTINUE"
              THEN Put(rds, PathOf(handles, h, key), new) ELSE rds
    /\ UNCHANGED <<handles, outsideHandles>>

\* Incr through a handle of the state store
HandleIncr(h, key, value) ==
    LET fk == PathOf(handles, h, key)
        cur == IF Present(rds, fk) THEN rds[fk] ELSE 0
    IN /\ h \in DOMAIN handles.ref
       /\ StoreOf(handles, h).kind = "state"
       /\ IncrBy(cur, value) \in Values
       /\ rds' = Put(rds, fk, IncrBy(cur, value))
       /\ UNCHANGED <<handles, outsideHandles>>

\* a redis DEL
Remove(store, fks) == [fk \in DOMAIN store \ fks |-> store[fk]]

\* Del through a handle of the data store
HandleDel(h, key) ==
    /\ h \in DOMAIN handles.ref
    /\ StoreOf(handles, h).kind = "data"
    /\ rds' = Remove(rds, {PathOf(handles, h, key)})
    /\ UNCHANGED <<handles, outsideHandles>>

IsPrefix(p, q) == Len(p) <= Len(q) /\ SubSeq(q, 1, Len(p)) = p

\* the keys SCAN gives for the pattern KeyPath + ".*"
Scan(store, path) == {fk \in DOMAIN store : IsPrefix(path \o <<".">>, fk)}

\* Cleanup: every key of the scan is deleted
Cleanup(store, path) == Remove(store, Scan(store, path))

HandleCleanup(h) ==
    /\ h \in DOMAIN handles.ref
    /\ rds' = Cleanup(rds, StoreOf(handles, h).path)
    /\ UNCHANGED <<handles, outsideHandles>>

(***************************************************************************)
(* The executors of the requests and the stores they are given             *)
(***************************************************************************)
outsideExec == <<calls, parents, fanIn, enq, runtimeVars, queueVars, pauseVars, regVars,
                 submitVars, raceVars>>

RequestIds == {<<"r">>, <<"s">>}

\* handle 1 is the store of the runtime, which CreateExecutor puts into every
\* FlowExecutor
RuntimeStore == 1

\* the store the executor works on: its own shallow clone of the store of the
\* runtime, with the client of that store
ExecutorStore(hs) == CopyStore(hs, RuntimeStore)

\* CreateExecutor up to the Configure of ex.Init: a flow without a handler is
\* an error; otherwise the executor is built around the store of the runtime
CreateExecutor(flowName, requestId) ==
    IF flowName \notin DOMAIN Flows
    THEN /\ Return("CreateExecutor", {flowName}, "error")
         /\ UNCHANGED <<Flows, workerMode, RetryQueueCount, taskQueues, pushQueue, consumers,
                         rmqConnection, stopping, observed, queueVars, outsideRuntime>>
    ELSE /\ Len(handles.ref) < MaxHandles
         /\ handles' = ExecutorStore(handles)
         /\ executors' = Append(executors, [flowName |-> flowName, requestId |-> requestId,
                                            store |-> Len(handles.ref) + 1, pc |-> "created"])
         /\ UNCHANGED <<rds, outsideExec>>

\* the init sequence of the executor: Configure of its store with the flow
\* and the request id of its request, then Init
ExecutorInit(e) ==
    /\ e \in DOMAIN executors
    /\ executors[e].pc = "created"
    /\ handles' = [handles EXCEPT !.obj[handles.ref[executors[e].store]] =
                       Configured(StoreOf(handles, executors[e].store).kind,
                                  executors[e].flowName, executors[e].requestId)]
    /\ executors' = [executors EXCEPT ![e].pc = "ready"]
    /\ UNCHANGED <<rds, outsideExec>>

\* a Set of the executor on its store
ExecutorSet(e, key, value) ==
    /\ e \in DOMAIN executors
    /\ executors[e].pc = "ready"
    /\ rds' = Put(rds, PathOf(handles, executors[e].store, key), value)
    /\ UNCHANGED <<handles, executors, outsideExec>>

(***************************************************************************)
(* Submitting requests: Execute, Pause, Resume, Stop, EnqueuePartialRequest *)
(***************************************************************************)
NoRouted == [handler |-> "none"]

\* the bytes of a string: of an ASCII letter, and 0xFF, which no UTF-8 text holds
Bytes == {"a", "xFF"}
Bodies == UNION {[1..n -> Bytes] : n \in 0..MaxBody}
Headers == {<<>>, [k \in {"h"} |-> <<<<"a">>>>]}

\* the requests a caller submits for a flow
Requests(flowName) ==
    [FlowName : {flowName}, RequestID : {<<"r">>}, Body : Bodies, Header : Headers,
     RawQuery : {<<"q">>}, Query : {[k \in {"q"} |-> <<<<"a">>>>]}]

\* json.Marshal of a string: a byte that is not valid UTF-8 is written as the
\* escape of the replacement rune
Encode(str) == [i \in 1..Len(str) |-> IF str[i] = "xFF" THEN "\\ufffd" ELSE str[i]]

\* json.Unmarshal of a string: the escape gives U+FFFD, three bytes in UTF-8
RECURSIVE Decode(_)
Decode(json) ==
    IF json = <<>> THEN <<>>
    ELSE (IF Head(json) = "\\ufffd" THEN <<"xEF", "xBF", "xBD">> ELSE <<Head(json)>>)
         \o Decode(Tail(json))

EncodeMap(m) == [k \in DOMAIN m |-> [i \in 1..Len(m[k]) |-> Encode(m[k][i])]]
DecodeMap(m) == [k \in DOMAIN m |-> [i \in 1..Len(m[k]) |-> Decode(m[k][i])]]

\* &Task{...}: Body is string(request.Body)
Task(flowName, request, requestType) ==
    [FlowName |-> flowName, RequestID |-> request.RequestID, Body |-> request.Body,
     Header |-> request.Header, RawQuery |-> request.RawQuery, Query |-> request.Query,
     RequestType |-> requestType]

\* json.Marshal(&Task{...})
Marshal(task) ==
    [flow_name |-> Encode(task.FlowName), request_id |-> Encode(task.RequestID),
     body |-> Encode(task.Body), header |-> EncodeMap(task.Header),
     raw_query |-> Encode(task.RawQuery), query |-> EncodeMap(task.Query),
     request_type |-> task.RequestType]

\* json.Unmarshal([]byte(message.Payload()), &task)
UnmarshalTask(data) ==
    [FlowName |-> Decode(data.flow_name), RequestID |-> Decode(data.request_id),
     Body |-> Decode(data.body), Header |-> DecodeMap(data.header),
     RawQuery |-> Decode(data.raw_query), Query |-> DecodeMap(data.query),
     RequestType |-> data.request_type]

\* makeRequestFromTask: Body is []byte(task.Body)
makeRequestFromTask(task) ==
    [FlowName |-> task.FlowName, RequestID |-> task.RequestID, Body |-> task.Body,
     Header |-> task.Header, RawQuery |-> task.RawQuery, Query |-> task.Query]

\* taskQueue.PublishBytes(data) on the queue with the given id
PublishData(op, queue, request, data) ==
    /\ Len(wire) < MaxWire
    /\ wire' = Append(wire, [op |-> op, queue |-> queue, request |-> request, data |-> data])
    /\ UNCHANGED <<routed, storeVars, runtimeVars, queueVars, pauseVars, regVars, handleVars,
                   raceVars, execVars>>

\* Execute, Pause, Stop, Resume: a connection of their own, the queue of the
\* flow, one task of their request type
Execute(flowName, request) ==
    PublishData("Execute", internalRequestQueueId(flowName), request,
                Marshal(Task(flowName, request, "NEW")))

Pause(flowName, request) ==
    PublishData("Pause", internalRequestQueueId(flowName), request,
                Marshal(Task(flowName, request, "PAUSE")))

Stop(flowName, request) ==
    PublishData("Stop", internalRequestQueueId(flowName), request,
                Marshal(Task(flowName, request, "STOP")))

Resume(flowName, request) ==
    PublishData("Resume", internalRequestQueueId(flowName), request,
                Marshal(Task(flowName, request, "RESUME")))

\* EnqueuePartialRequest: the queue is the one the worker holds for the flow;
\* of a flow without an entry the map gives the nil rmq.Queue, and the call of
\* PublishBytes on it panics
EnqueuePartialRequest(pr) ==
    IF pr.FlowName \in DOMAIN taskQueues
    THEN PublishData("EnqueuePartialRequest", taskQueues[pr.FlowName], pr,
                     Marshal(Task(pr.FlowName, pr, "PARTIAL")))
    ELSE /\ Return("EnqueuePartialRequest", {pr.FlowName}, "panic")
         /\ UNCHANGED <<Flows, workerMode, RetryQueueCount, taskQueues, pushQueue, consumers,
                         rmqConnection, stopping, observed, queueVars, outsideRuntime>>

\* Consume of the next task of a queue with a consumer, up to the handler
\* that handleRequest calls with the request made from the task
ConsumeTask ==
    /\ wire # <<>>
    /\ Head(wire).queue \in DOMAIN consumers /\ consumers[Head(wire).queue] > 0
    /\ LET task == UnmarshalTask(Head(wire).data)
       IN routed' = [handler |-> handleRequest(task.RequestType),
                     request |-> makeRequestFromTask(task),
                     op |-> Head(wire).op, queue |-> Head(wire).queue,
                     sent |-> Head(wire).request]
    /\ wire' = Tail(wire)
    /\ UNCHANGED <<storeVars, runtimeVars, queueVars, pauseVars, regVars, handleVars, raceVars, execVars>>

(***************************************************************************)
(* Initial states and specifications                                       *)
(***************************************************************************)
\* GetRedisStateStore: an empty keyspace, no call in progress
InitStoreVars ==
    /\ rds = <<>>
    /\ calls = [p \in Procs |-> IdleCall]
    /\ parents = <<>>
    /\ fanIn = 0
    /\ enq = 0
    /\ handles = [ref |-> <<>>, obj |-> <<>>]

\* the FlowRuntime after Init, configured with n retry queues
InitRuntime(n) ==
    /\ Flows = <<>>
    /\ workerMode = FALSE
    /\ RetryQueueCount = n
    /\ taskQueues = <<>>
    /\ pushQueue = <<>>
    /\ consumers = <<>>
    /\ rmqConnection = "open"
    /\ stopping = FALSE
    /\ observed = FALSE
    /\ ret = NoRet

\* no message was published yet
InitQueues ==
    /\ msgs = [m \in Msgs |-> NoMsg]
    /\ unacked = EmptyBag
    /\ published = 0
    /\ acks = 0
    /\ drops = 0
    /\ last = NoConsume
    /\ wire = <<>>
    /\ routed = NoRouted

\* a request that is running, none of its nodes started, no task published
InitPause ==
    /\ phase = "running"
    /\ nodeState = [n \in Nodes |-> "pending"]
    /\ tasks = [t \in Tasks |-> NoTask]

\* an empty registry, StartRuntime not called
\* no caller is in Register
InitRace ==
    /\ registering = [p \in Procs |-> NoCall]
    /\ queueErr = FALSE
    /\ initializing = NoInit
    /\ executors = <<>>

InitReg ==
    /\ registry = <<>>
    /\ workerFlows = <<>>
    /\ started = "no"
    /\ sinceBeat = 0
    /\ beats = 0
    /\ lastBeat = [mode |-> FALSE, err |-> FALSE]

InitStore == InitStoreVars /\ InitRuntime(0) /\ InitQueues /\ InitPause /\ InitReg /\ InitRace

NextStore ==
    \/ \E p \in Procs, v \in NodeStates : Set(p, NodeStateKey, v)
    \/ \E p \in Procs, old \in NodeStates, new \in NodeStates : UpdateCall(p, NodeStateKey, old, new)
    \/ \E p \in Procs : UpdateWatch(p)
    \/ \E p \in Procs : UpdateGet(p)
    \/ \E p \in Procs : UpdateExec(p)

SpecStore == InitStore /\ [][NextStore]_vars

NextFanIn ==
    \/ \E k \in 1..MaxParents : InitFanIn(k)
    \/ \E i \in 1..MaxParents : Incr(i, CounterKey, -1)
    \/ \E i \in 1..MaxParents : FanInEnqueue(i)

SpecFanIn == InitStore /\ [][NextFanIn]_vars

\* a worker that serves one flow, with any configured number of retry queues
InitQueue ==
    /\ InitStoreVars /\ InitQueues /\ InitPause /\ InitReg /\ InitRace
    /\ \E n \in 0..MaxRetryQueues : InitRuntime(n)

NextQueue ==
    \/ Register([f \in {F1} |-> "exportable"])
    \/ EnterWorkerMode
    \/ \E payload \in {"GARBAGE", "BOGUS", "NEW", "PARTIAL"} : Publish(F1, payload)
    \/ \E m \in Msgs : Fetch(m)
    \/ \E m \in Msgs, o \in {"unparsed", "invalid", "createFailed", "handlerErr", "ok",
                             "nodeFailed", "enqueued"} : Consume(m, o)

SpecQueue == InitQueue /\ [][NextQueue]_vars

\* the tasks of one request, handled by the consumers of a worker
NextPause ==
    \/ \E type \in {"PARTIAL", "PAUSE", "RESUME"} : PublishTask(type)
    \/ \E t \in Tasks : FetchTask(t)
    \/ \E t \in Tasks : HandlePause(t)
    \/ \E t \in Tasks : HandleResume(t)
    \/ \E t \in Tasks : PartialCheck(t)
    \/ \E t \in Tasks : PartialClaim(t)
    \/ \E t \in Tasks : PartialComplete(t)

SpecPause == InitQueue /\ [][NextPause]_vars

\* a runtime whose flows are registered, that enters and leaves worker mode
\* and registers its details
InitRegistry == InitStoreVars /\ InitQueues /\ InitPause /\ InitReg /\ InitRace /\ InitRuntime(1)

NextRegistry ==
    \/ \E f \in {F1, F2}, h \in {"exportable", "unexportable"} : Register([x \in {f} |-> h])
    \/ EnterWorkerMode
    \/ ExitWorkerMode
    \/ ExitWorkerModeReturn
    \/ StartRuntime
    \/ Heartbeat
    \/ Halt
    \/ Tick

SpecRegistry == InitRegistry /\ [][NextRegistry]_vars

\* a FlowRuntime as it is constructed: Init was not called yet, the calls of
\* its API are made one after the other and their results are kept
InitApi ==
    /\ InitStoreVars /\ InitQueues /\ InitPause /\ InitReg /\ InitRace
    /\ Flows = <<>>
    /\ workerMode = FALSE
    /\ RetryQueueCount \in 0..MaxRetryQueues
    /\ taskQueues = <<>>
    /\ pushQueue = <<>>
    /\ consumers = <<>>
    /\ rmqConnection = "nil"
    /\ stopping = FALSE
    /\ observed = TRUE
    /\ ret = NoRet

NextApi ==
    \/ FlowRuntimeInit
    \/ \E names \in SUBSET {F1, F2} : Register([f \in names |-> "exportable"])
    \/ EnterWorkerMode
    \/ ExitWorkerMode
    \/ ExitWorkerModeReturn

SpecApi == InitApi /\ [][NextApi]_vars

\* a worker with one retry queue per flow that enters and leaves worker mode
\* while tasks are published and consumed
InitExit ==
    /\ InitStoreVars /\ InitQueues /\ InitPause /\ InitReg /\ InitRace
    /\ Flows = <<>>
    /\ workerMode = FALSE
    /\ RetryQueueCount = 1
    /\ taskQueues = <<>>
    /\ pushQueue = <<>>
    /\ consumers = <<>>
    /\ rmqConnection = "open"
    /\ stopping = FALSE
    /\ observed = TRUE
    /\ ret = NoRet

NextExit ==
    \/ Register([f \in {F1} |-> "exportable"])
    \/ EnterWorkerMode
    \/ ExitWorkerMode
    \/ ExitWorkerModeReturn
    \/ \E payload \in {"GARBAGE", "NEW"} : Publish(F1, payload)
    \/ \E m \in Msgs : Fetch(m)
    \/ \E m \in Msgs : ConsumeCall(m)
    \/ \E m \in Msgs, o \in {"unparsed", "handlerErr", "ok"} : ConsumeReturn(m, o)

SpecExit == InitExit /\ [][NextExit]_vars

\* two requests, each with a handle of the same store configured for it
InitNs ==
    /\ InitRuntime(0) /\ InitQueues /\ InitPause /\ InitReg /\ InitRace
    /\ rds = <<>>
    /\ calls = [p \in Procs |-> IdleCall]
    /\ parents = <<>>
    /\ fanIn = 0
    /\ enq = 0
    /\ \E kind \in {"state", "data"}, f1 \in Names, r1 \in Names, f2 \in Names, r2 \in Names :
          handles = [ref |-> <<1, 2>>,
                     obj |-> <<Configured(kind, f1, r1), Configured(kind, f2, r2)>>]

NextNs ==
    \/ \E h \in 1..2, key \in StoreKeys, v \in Values : HandleSet(h, key, v)
    \/ \E h \in 1..2, key \in StoreKeys, old \in Values, new \in Values : HandleUpdate(h, key, old, new)
    \/ \E h \in 1..2, key \in StoreKeys : HandleIncr(h, key, 1)
    \/ \E h \in 1..2, key \in StoreKeys : HandleDel(h, key)
    \/ \E h \in 1..2 : HandleCleanup(h)

SpecNs == InitNs /\ [][NextNs]_vars

\* one store as the engine gets it at its start; handles are copied from it,
\* configured for the requests of a flow and written through
InitCopy ==
    /\ InitRuntime(0) /\ InitQueues /\ InitPause /\ InitReg /\ InitRace
    /\ rds = <<>>
    /\ calls = [p \in Procs |-> IdleCall]
    /\ parents = <<>>
    /\ fanIn = 0
    /\ enq = 0
    /\ \E kind \in {"state", "data"} : handles = [ref |-> <<1>>, obj |-> <<NewStore(kind)>>]

NextCopy ==
    \/ \E h \in 1..MaxHandles, r \in {<<"a">>, <<"b">>} : HandleConfigure(h, <<"a">>, r)
    \/ \E h \in 1..MaxHandles : HandleCopyStore(h)
    \/ \E h \in 1..MaxHandles, v \in Values : HandleSet(h, <<"k">>, v)

SpecCopy == InitCopy /\ [][NextCopy]_vars

\* callers submit requests for a flow to a worker that serves the flow
NextSubmit ==
    \/ Register([f \in {F1} |-> "exportable"])
    \/ EnterWorkerMode
    \/ \E request \in Requests(F1) : Execute(F1, request)
    \/ \E request \in Requests(F1) : Pause(F1, request)
    \/ \E request \in Requests(F1) : Stop(F1, request)
    \/ \E request \in Requests(F1) : Resume(F1, request)
    \/ \E pr \in Requests(F1) : EnqueuePartialRequest(pr)
    \/ ConsumeTask

SpecSubmit == InitRegistry /\ [][NextSubmit]_vars

\* two goroutines that each call Register once, beside a caller that enters
\* and leaves worker mode
FlowMaps == {[f \in names |-> h] : names \in SUBSET {F1, F2},
                                   h \in {"exportable", "unexportable"}}

NextRace ==
    \/ \E p \in Procs, flows \in FlowMaps : RegisterCheckLoop(p, flows)
    \/ \E p \in Procs : RegisterSetLoop(p)
    \/ EnterWorkerMode
    \/ ExitWorkerMode
    \/ ExitWorkerModeReturn

SpecRace == InitRegistry /\ [][NextRace]_vars

\* a worker whose calls are observed, with partial requests of its executors
NextPartial ==
    \/ \E f \in {F1, F2} : Register([x \in {f} |-> "exportable"])
    \/ EnterWorkerMode
    \/ ExitWorkerMode
    \/ ExitWorkerModeReturn
    \/ \E f \in {F1, F2} : \E pr \in Requests(f) : EnqueuePartialRequest(pr)
    \/ ConsumeTask

SpecPartial == InitExit /\ [][NextPartial]_vars

\* a worker that enters worker mode and registers flows in worker mode while
\* the consumers it has started handle requests
NextMap ==
    \/ \E f \in {F1, F2} : RegisterOutside([x \in {f} |-> "exportable"])
    \/ EnterWorkerModeBegin
    \/ \E f \in {F1, F2} : RegisterBegin([x \in {f} |-> "exportable"])
    \/ \E f \in {F1, F2} : OpenFlowQueues(f)
    \/ AddFlowConsumers
    \/ ExitWorkerModeCall
    \/ ExitWorkerModeReturn
    \/ \E f \in {F1, F2} : Publish(f, "NEW")
    \/ \E m \in Msgs : Fetch(m)
    \/ \E m \in Msgs : ConsumeCall(m)
    \/ \E m \in Msgs, o \in {"ok", "enqueued"} : ConsumeReturn(m, o)
    \/ \E m \in Msgs : ConsumeFatal(m)

SpecMap == InitExit /\ [][NextMap]_vars

\* the executors of the requests that the consumers of a worker handle at the
\* same time, all made from the one state (or data) store of the runtime
NextExec ==
    \/ Register([f \in {F1} |-> "exportable"])
    \/ \E f \in {F1, F2}, r \in RequestIds : CreateExecutor(f, r)
    \/ \E e \in 1..MaxHandles : ExecutorInit(e)
    \/ \E e \in 1..MaxHandles, key \in StoreKeys, v \in Values : ExecutorSet(e, key, v)

SpecExec == InitCopy /\ [][NextExec]_vars

\* the calls of the runtime while Redis comes and goes
NextFail ==
    \/ FlowRuntimeInit
    \/ \E names \in SUBSET {F1, F2} : Register([f \in names |-> "exportable"])
    \/ EnterWorkerMode
    \/ ExitWorkerMode
    \/ ExitWorkerModeReturn
    \/ RedisOutage

SpecFail == InitApi /\ [][NextFail]_vars

Incremented == {i \in DOMAIN parents : parents[i].pc # "running"}

\* C3: the values returned to the parents of a fan-in counter initialised to k
\* are pairwise distinct and lie in 0..k-1, no decrement is lost (the counter
\* is k minus the number of Incr calls made), at most one parent enqueues the
\* child, and once the k parents are through the child was enqueued exactly once.
C3_FanIn ==
    /\ \A i, j \in Incremented : i # j => parents[i].ret # parents[j].ret
    /\ \A i \in Incremented : parents[i].ret \in 0..(fanIn - 1)
    /\ fanIn > 0 => rds[FullKey(KeyPath, CounterKey)] = fanIn - Cardinality(Incremented)
    /\ enq <= 1
    /\ (fanIn > 0 /\ \A i \in DOMAIN parents : parents[i].pc = "done") => enq = 1

\* three parents have decremented the counter and the child was enqueued once
C3_Witness ==
    /\ fanIn = 3
    /\ \A i \in DOMAIN parents : parents[i].pc = "done"
    /\ {parents[i].ret : i \in DOMAIN parents} = {0, 1, 2}
    /\ enq = 1


(***************************************************************************)
(* Claims about the queues                                                 *)
(***************************************************************************)
BadPayload(payload) == payload \in {"GARBAGE", "BOGUS"}

\* the queue a message of the flow is in after hop rejections, by the order
\* primary -> push-0 -> ... -> push-{N-1}
ChainQueue(flowName, hop) ==
    IF hop = 0 THEN internalRequestQueueId(flowName)
    ELSE PushQId(internalRequestQueueId(flowName), hop - 1)

\* the number of times the message was moved into a retry queue
RetryPushes(d) == IF d.st = "rejected" THEN d.hop - 1 ELSE d.hop

Settled == \A m \in Msgs : msgs[m].st \in {"none", "done", "rejected"}

\* C4: every Consume call settles its delivery with exactly one queue
\* operation: Push and not Ack when the payload does not parse or the handler
\* returns an error, Ack and not Push otherwise.
C4_OneSettlement ==
    last.outcome # "" =>
        IF last.outcome = "unparsed" \/ HandlerErr(last.outcome)
        THEN last.push /\ ~last.ack
        ELSE last.ack /\ ~last.push

\* C5: a message that was rejected hop times is in the hop-th queue of the
\* chain primary -> push-0 -> ... -> push-{N-1} and was delivered hop times;
\* the rejection at the tail drops it; no message is delivered more than
\* RetryQueueCount + 1 times.
C5_PushChain ==
    \A m \in Msgs :
        LET d == msgs[m]
        IN /\ d.st \in {"ready", "fetched"} =>
                /\ d.hop <= RetryQueueCount
                /\ d.q = ChainQueue(d.flow, d.hop)
                /\ d.deliv = d.hop
           /\ d.st = "rejected" => d.hop = RetryQueueCount + 1 /\ d.deliv = d.hop
           /\ d.deliv <= RetryQueueCount + 1

\* with two retry queues a message went down the whole chain and was dropped
\* at its third delivery, another one is in the second retry queue
C5_Witness ==
    /\ RetryQueueCount = 2
    /\ \E m \in Msgs : msgs[m].st = "rejected" /\ msgs[m].deliv = 3
    /\ \E m \in Msgs : msgs[m].st = "ready" /\ msgs[m].q = PushQId(internalRequestQueueId(F1), 1)

\* C6: when no message is left in a queue, the acknowledged deliveries and
\* the drops at the end of the chain add up to the messages ever published.
C6_Conservation == Settled => acks + drops = published

\* C7 as stated: a message that does not parse or has an unknown request type
\* is pushed to a retry queue once and then dropped, never pushed a second
\* time; no executor is created and no handler is invoked for it.
C7_PushedOnce ==
    /\ \A m \in Msgs :
        BadPayload(msgs[m].payload) =>
            RetryPushes(msgs[m]) <= 1
    /\ BadPayload(last.payload) => ~last.created /\ last.handler \in {"none", "invalid"}

\* C7 amended: such a message is rejected at every delivery, so it is pushed
\* to each of the RetryQueueCount retry queues in turn and dropped at the end
\* of the chain; no executor is created and no handler is invoked for it.
C7_PushedAlongChain ==
    /\ \A m \in Msgs :
        BadPayload(msgs[m].payload) =>
            /\ msgs[m].st # "done"
            /\ RetryPushes(msgs[m]) <= RetryQueueCount
            /\ msgs[m].st = "rejected" => RetryPushes(msgs[m]) = RetryQueueCount
    /\ BadPayload(last.payload) =>
            /\ ~last.created /\ last.handler \in {"none", "invalid"}
            /\ last.push

\* a task with an unknown request type was pushed to both retry queues and dropped
C7_Witness ==
    /\ RetryQueueCount = 2
    /\ \E m \in Msgs : /\ msgs[m].payload = "BOGUS" /\ msgs[m].st = "rejected"
                       /\ RetryPushes(msgs[m]) = 2
    /\ last.payload = "BOGUS"

C9_PausedNoStart ==
    [][\A n \in Nodes :
        (nodeState[n] = "pending" /\ nodeState'[n] = "running") => phase # "paused"]_vars

\* the registry is as a successful registerDetails leaves it
Registered(reg, mode, flows) ==
    /\ IF mode THEN WorkerKey \in DOMAIN reg /\ reg[WorkerKey].ttl = RDBKeyTimeOut
               ELSE WorkerKey \notin DOMAIN reg
    /\ \A f \in DOMAIN flows :
          FlowKey(f) \in DOMAIN reg /\ reg[FlowKey(f)].ttl = RDBKeyTimeOut

Returns(op) == ret' # ret /\ ret'.op = op

\* C12: a Register call whose map holds at least one name that is already
\* registered returns an error and registers none of the names of the map:
\* Flows, the task queues and their consumers are as before the call.
C12_RegisterAllOrNothing ==
    [][(Returns("Register") /\ ret'.names \cap DOMAIN Flows # {})
          => /\ ret'.res = "error"
             /\ Flows' = Flows
             /\ taskQueues' = taskQueues
             /\ pushQueue' = pushQueue
             /\ consumers' = consumers]_vars

\* a Register call with a new and a registered name was rejected in worker mode
C12_Witness ==
    /\ ret = Ret("Register", {F1, F2}, "error")
    /\ DOMAIN Flows = {F1}
    /\ workerMode

\* the retry queues of a flow
RetryQueues(flowName) ==
    {PushQId(internalRequestQueueId(flowName), idx) : idx \in 0..(RetryQueueCount - 1)}

\* the queue has a prefetcher and exactly k consumers
Consumed(cons, q, k) == q \in DOMAIN cons /\ cons[q] = k

\* the step is an EnterWorkerMode call that takes the runtime into worker mode
Enters == ~workerMode /\ workerMode'

\* C13, as stated: after EnterWorkerMode succeeds, every queue of every registered
\* flow, the primary queue and each retry queue, has one prefetcher and exactly
\* Concurrency consumers.
C13_ConcurrencyEveryQueue ==
    [][Enters => \A f \in DOMAIN Flows' :
                    \A q \in {internalRequestQueueId(f)} \cup RetryQueues(f) :
                        Consumed(consumers', q, Concurrency)]_vars

\* C13, amended: after an EnterWorkerMode call that takes the runtime into worker
\* mode and succeeds, the primary queue of every registered flow has one prefetcher
\* and exactly Concurrency consumers, and each of its retry queues has one
\* prefetcher and exactly one consumer.
C13_ConcurrencyPrimaryQueue ==
    [][Enters => \A f \in DOMAIN Flows' :
                    /\ Consumed(consumers', internalRequestQueueId(f), Concurrency)
                    /\ \A q \in RetryQueues(f) : Consumed(consumers', q, 1)]_vars

\* worker mode was entered with two flows and at least one retry queue
C13_Witness ==
    /\ ret = Ret("EnterWorkerMode", {}, "nil")
    /\ workerMode
    /\ DOMAIN Flows = {F1, F2}
    /\ RetryQueueCount >= 1
    /\ Consumed(consumers, PushQId(internalRequestQueueId(F2), 0), 1)

\* C14: ExitWorkerMode returns only after every Consume call that was in progress
\* has finished; from its return until the next EnterWorkerMode no Consume call
\* starts, the runtime is not in worker mode and the task-queue map is empty.
C14_ExitWaits ==
    [][/\ (stopping /\ ~stopping')
           => /\ \A m \in Msgs : msgs'[m].st # "consuming"
              /\ ~workerMode'
              /\ taskQueues' = <<>>
       /\ (~workerMode /\ ~stopping)
           => /\ taskQueues = <<>>
              /\ \A m \in Msgs : msgs'[m].st = "consuming" => msgs[m].st = "consuming"]_vars

\* ExitWorkerMode has returned: one task was consumed before, another one was
\* delivered and is not taken by any consumer
C14_Witness ==
    /\ ret = Ret("ExitWorkerMode", {}, "nil")
    /\ ~workerMode /\ ~stopping
    /\ \E m \in Msgs : msgs[m].st = "fetched"
    /\ \E m \in Msgs : msgs[m].deliv >= 1

\* the request a handle was configured for
Request(hs, h) == <<StoreOf(hs, h).flowName, StoreOf(hs, h).requestId>>

\* the step is a Set, Update, Incr or Del through the handle
Writes(h) ==
    \E key \in StoreKeys :
        \/ \E v \in Values : HandleSet(h, key, v)
        \/ \E old \in Values, new \in Values : HandleUpdate(h, key, old, new)
        \/ HandleIncr(h, key, 1)
        \/ HandleDel(h, key)

\* no Get through the handle changes in the step
SameGets(g) ==
    \A key \in StoreKeys : HandleGet(rds', handles, g, key) = HandleGet(rds, handles, g, key)

\* C15: each request has its own namespace in both stores: for two distinct pairs
\* (flow name, request id), also with '.' or '-' in them, and any keys the full
\* keys of the state store, and those of the data store, are different, so a Set,
\* Update, Incr or Del for one request never changes a Get of the other request.
C15_OwnNamespace ==
    [][\A h \in 1..2, g \in 1..2 :
          Request(handles, h) # Request(handles, g)
            => /\ \A k1 \in StoreKeys, k2 \in StoreKeys :
                     PathOf(handles, h, k1) # PathOf(handles, g, k2)
               /\ Writes(h) => SameGets(g)]_vars

\* C16: Cleanup through a handle configured for a request deletes every key of
\* the namespace of the request and no key of another request: afterwards every
\* Get of the request fails, every Get of another (flow, request) returns what it
\* returned before, and a second Cleanup changes nothing.
C16_Cleanup ==
    [][\A h \in 1..2 :
          HandleCleanup(h)
            => /\ \A key \in StoreKeys : HandleGet(rds', handles, h, key).err
               /\ \A g \in 1..2 : Request(handles, g) # Request(handles, h) => SameGets(g)
               /\ Cleanup(rds', StoreOf(handles, h).path) = rds']_vars

\* the handles of the store
HandleIds(hs) == DOMAIN hs.ref

\* C17: CopyStore returns a new handle bound to the namespace the original has
\* at the time of the copy and backed by the same data: a value Set through a
\* handle is returned by Get through every handle of the same namespace, and a
\* Configure on one handle changes the namespace of that handle only, never of
\* the original or of a sibling copy.
C17_CopyStore ==
    [][\A h \in HandleIds(handles) :
          /\ HandleCopyStore(h)
                => /\ HandleIds(handles') = HandleIds(handles) \cup {Len(handles.ref) + 1}
                   /\ StoreOf(handles', Len(handles.ref) + 1).path = StoreOf(handles, h).path
                   /\ StoreOf(handles', Len(handles.ref) + 1).kind = StoreOf(handles, h).kind
                   /\ \A g \in HandleIds(handles) : StoreOf(handles', g) = StoreOf(handles, g)
          /\ \A v \in Values :
                HandleSet(h, <<"k">>, v)
                  => \A g \in HandleIds(handles) :
                        StoreOf(handles, g).path = StoreOf(handles, h).path
                          => HandleGet(rds', handles, g, <<"k">>) = [err |-> FALSE, value |-> v]
          /\ \A r \in {<<"a">>, <<"b">>} :
                HandleConfigure(h, <<"a">>, r)
                  => \A g \in HandleIds(handles) \ {h} :
                        StoreOf(handles', g) = StoreOf(handles, g)]_vars

\* a handle was copied twice and the original configured for another request
\* afterwards; a value was set through a copy
C17_Witness ==
    /\ Len(handles.ref) = 3
    /\ StoreOf(handles, 2).path = StoreOf(handles, 3).path
    /\ StoreOf(handles, 2).path # <<>>
    /\ StoreOf(handles, 1).path \notin {<<>>, StoreOf(handles, 2).path}
    /\ ~HandleGet(rds, handles, 3, <<"k">>).err
    /\ HandleGet(rds, handles, 1, <<"k">>).err

\* the request type and the handler that belong to a call
TypeOf(op) ==
    CASE op = "Execute" -> "NEW" [] op = "Pause" -> "PAUSE" [] op = "Resume" -> "RESUME"
      [] op = "Stop" -> "STOP" [] op = "EnqueuePartialRequest" -> "PARTIAL"

HandlerOf(op) ==
    CASE op = "Execute" -> "handleNewRequest" [] op = "Pause" -> "handlePauseRequest"
      [] op = "Resume" -> "handleResumeRequest" [] op = "Stop" -> "handleStopRequest"
      [] op = "EnqueuePartialRequest" -> "handlePartialRequest"

\* C18: Execute, Pause, Resume and Stop each publish exactly one task to the
\* primary queue goflow-internal-request:<flow>, with request type NEW, PAUSE,
\* RESUME and STOP, and EnqueuePartialRequest publishes one PARTIAL task; the
\* consumer routes each type to its own handler, and the request rebuilt from
\* the task has the flow name, request id, body, header, raw query and query of
\* the request that was published.
C18_Submit ==
    [][/\ Len(wire') > Len(wire)
           => /\ Len(wire') = Len(wire) + 1
              /\ wire'[Len(wire')].queue =
                     internalRequestQueueId(wire'[Len(wire')].request.FlowName)
              /\ wire'[Len(wire')].data.request_type = TypeOf(wire'[Len(wire')].op)
       /\ Len(wire') < Len(wire)
           => /\ routed'.handler = HandlerOf(routed'.op)
              /\ routed'.request = routed'.sent]_vars

\* the step opens no queue, adds and stops no consumer and leaves the flows,
\* the worker-mode flag and the task-queue map as they are
RuntimeUntouched ==
    UNCHANGED <<Flows, workerMode, stopping, taskQueues, pushQueue, consumers>>

\* C19: EnterWorkerMode called in worker mode, and ExitWorkerMode called outside
\* worker mode, are no-ops that return nil: no queue is opened, no consumer is
\* added or stopped, the worker-mode flag and the task-queue map are unchanged.
C19_NoOps ==
    [][/\ (Returns("EnterWorkerMode") /\ workerMode)
           => (ret'.res = "nil" /\ RuntimeUntouched)
       /\ (Returns("ExitWorkerMode") /\ ~workerMode /\ ~stopping)
           => (ret'.res = "nil" /\ RuntimeUntouched)]_vars

\* C20: while the connection to the queues is not initialised, Register (with
\* any map, also an empty one) and EnterWorkerMode return an error and
\* ExitWorkerMode returns nil, and none of them changes the registered flows,
\* the worker-mode flag or the task-queue map.
C20_Uninitialised ==
    [][(rmqConnection = "nil" /\ ret' # ret
          /\ ret'.op \in {"Register", "EnterWorkerMode", "ExitWorkerMode"})
          => /\ ret'.res = IF ret'.op = "ExitWorkerMode" THEN "nil" ELSE "error"
             /\ RuntimeUntouched]_vars

\* C21: after any sequence of EnterWorkerMode, Register and ExitWorkerMode calls
\* that ends in worker mode, the primary queue of every registered flow has
\* exactly Concurrency consumers and each retry queue is the push target of
\* exactly one queue: a Register in worker mode adds queues and consumers for
\* the new flows only.
C21_ConsumersPerFlow ==
    (workerMode /\ ~stopping)
        => \A f \in DOMAIN Flows :
              /\ Consumed(consumers, internalRequestQueueId(f), Concurrency)
              /\ \A q \in RetryQueues(f) :
                    Cardinality({p \in DOMAIN pushQueue : pushQueue[p] = q}) = 1

\* the number of times the flow is in the list
Occurrences(list, f) == Cardinality({i \in DOMAIN list : list[i] = f})

\* C22: after any number of heartbeats the flow list of the worker record
\* written to the registry holds each registered flow exactly once: its length
\* is the number of registered flows and does not grow from one heartbeat to the
\* next when no flow is registered in between.
C22_WorkerFlowsOnce ==
    [][(beats' = beats + 1 /\ workerMode /\ WorkerKey \in DOMAIN registry'
          /\ registry'[WorkerKey].ttl = RDBKeyTimeOut)
          => /\ Len(registry'[WorkerKey].value) = Cardinality(DOMAIN Flows)
             /\ \A f \in DOMAIN Flows : Occurrences(registry'[WorkerKey].value, f) = 1]_vars

\* C23: of two Register calls whose maps share a name, at most one returns
\* nil, and the name then has the handler of that call
C23_OneRegisterWins ==
    \A p, q \in Procs :
        (/\ p # q
         /\ registering[p].pc = "done" /\ registering[q].pc = "done"
         /\ DOMAIN registering[p].flows \cap DOMAIN registering[q].flows # {})
            => /\ ~(registering[p].res = "nil" /\ registering[q].res = "nil")
               /\ (registering[p].res = "nil")
                     => \A f \in DOMAIN registering[p].flows :
                           f \in DOMAIN Flows /\ Flows[f] = registering[p].flows[f]

\* C24: an EnterWorkerMode that returns an error leaves the runtime out of
\* worker mode, and a Register that returns an error leaves Flows as it was
C24_FailedCallChangesNothing ==
    [][/\ (Returns("EnterWorkerMode") /\ ret'.res = "error") => ~workerMode'
       /\ (Returns("Register") /\ ret'.res = "error") => Flows' = Flows]_vars

\* C25: EnqueuePartialRequest publishes exactly one PARTIAL task to the
\* primary queue of the flow of the request, or it returns an error; without
\* an entry for the flow in the task-queue map it returns an error.
C25_PartialOrError ==
    [][\A f \in {F1, F2} : \A pr \in Requests(f) :
          EnqueuePartialRequest(pr)
             => \/ /\ pr.FlowName \in DOMAIN taskQueues
                   /\ wire' = Append(wire, wire'[Len(wire')])
                   /\ wire'[Len(wire')].queue = internalRequestQueueId(pr.FlowName)
                   /\ wire'[Len(wire')].data.request_type = "PARTIAL"
                \/ /\ ret'.op = "EnqueuePartialRequest" /\ ret'.res = "error"
                   /\ wire' = wire]_vars

\* the step writes the task-queue map: an iteration of initializeTaskQueues
\* stores a queue, or cleanTaskQueues replaces the map
WritesTaskQueues == (\E f \in {F1, F2} : OpenFlowQueues(f) /\ ~queueErr) \/ ExitWorkerModeReturn

\* C26: the task-queue map is not written while a consumer may read it: no
\* write of initializeTaskQueues and no reset of cleanTaskQueues is made while
\* a Consume call that reaches EnqueuePartialRequest is in progress.
C26_NoWriteWhileConsuming ==
    [][WritesTaskQueues => \A m \in Msgs : ~ReadsTaskQueues(m)]_vars

\* the store object of the executor
OwnStore(e) == StoreOf(handles, executors[e].store)

\* the full key of a key in the namespace of the request of the executor
OwnPath(e, key) ==
    IF OwnStore(e).kind = "state"
    THEN FullKey(Configure(executors[e].flowName, executors[e].requestId), key)
    ELSE getPath(DataConfigure(executors[e].flowName, executors[e].requestId), key)

====
